---- MODULE Spec2Model ----
(***************************************************************************)
(* Speech-generation pipeline of openai-edge-tts: the HTTP handlers of     *)
(* app/server.py and generate_speech / _generate_audio / speed_to_rate of  *)
(* app/tts_handler.py.                                                     *)
(*                                                                         *)
(* Conventions of the model                                                *)
(*  - a speed is an integer number of hundredths (1.2 is 120);             *)
(*  - a voice identifier is the sequence of its lexical tokens             *)
(*    ("en-US-AvaNeural" is <<"en-","US-","Ava","Neural">>), startswith    *)
(*    and substring tests are tests on tokens;                             *)
(*  - a rate string is the sequence of its characters;                     *)
(*  - the text of a request is seen only through the outcome of            *)
(*    langdetect.detect on it;                                             *)
(*  - a temporary file is a name of Names; the disk maps every name to the *)
(*    file it holds (or NoFile).                                           *)
(***************************************************************************)
EXTENDS Integers, Sequences, FiniteSets, TLC

\* number of requests in flight
NReq == 2
\* speeds tried on each side of the accepted range, in hundredths
SpeedMargin == 60

Reqs == 1..NReq
Names == 1..(2 * NReq)
NoPath == 0
NoFile == [owner |-> 0, suffix |-> "", content |-> ""]

VARIABLES
    EXPAND_API,              \* server.py: elevenlabs / azure endpoints enabled
    DETAILED_ERROR_LOGGING,  \* utils flag read by tts_handler.py
    ffmpeg_installed,        \* what is_ffmpeg_installed() finds on this host
    disk,                    \* temp directory: name -> file
    pc,                      \* position of each request's handler
    loc,                     \* locals of each request's handler and pipeline
    response,                \* HTTP response of each request
    fn_in,                   \* input of a direct call of a pure function
    fn_out                   \* its result

vars == <<EXPAND_API, DETAILED_ERROR_LOGGING, ffmpeg_installed, disk, pc, loc,
          response, fn_in, fn_out>>

pipeline_vars == <<EXPAND_API, DETAILED_ERROR_LOGGING, ffmpeg_installed, disk,
                   pc, loc, response>>

----------------------------------------------------------------------------
(* Static tables of tts_handler.py *)

AvaNeural == <<"en-", "US-", "Ava", "Neural">>
AndrewNeural == <<"en-", "US-", "Andrew", "Neural">>
SoniaNeural == <<"en-", "GB-", "Sonia", "Neural">>
EricNeural == <<"en-", "US-", "Eric", "Neural">>
SteffanNeural == <<"en-", "US-", "Steffan", "Neural">>
EmmaNeural == <<"en-", "US-", "Emma", "Neural">>
DmitryNeural == <<"ru-", "RU-", "Dmitry", "Neural">>

voice_mapping ==
    (<<"alloy">> :> AvaNeural) @@ (<<"echo">> :> AndrewNeural) @@
    (<<"fable">> :> SoniaNeural) @@ (<<"onyx">> :> EricNeural) @@
    (<<"nova">> :> SteffanNeural) @@ (<<"shimmer">> :> EmmaNeural)

MULTILINGUAL_VOICE == <<"en-", "US-", "Andrew", "Multilingual", "Neural">>

LANGUAGE_VOICE_OVERRIDES == ("ru" :> DmitryNeural)

\* dict.get(key, default)
Get(d, key, default) == IF key \in DOMAIN d THEN d[key] ELSE default

\* str.startswith and the `in` test, on tokens
StartsWith(v, tok) == Len(v) >= 1 /\ v[1] = tok
Contains(v, tok) == \E i \in 1..Len(v) : v[i] = tok

----------------------------------------------------------------------------
(* generate_speech: language detection and voice resolution *)

LangDetectException == "LangDetectException"

\* try: detect(text)  except LangDetectException: "en"
DetectedLang(outcome) == IF outcome = LangDetectException THEN "en" ELSE outcome

\* variant: only an alias is ever replaced, a voice passed directly is kept
ResolveVoiceAliasOnly(voice, detected_lang) ==
    LET mapped_voice == Get(voice_mapping, voice, voice) IN
    IF voice \in DOMAIN voice_mapping /\ StartsWith(mapped_voice, "en-")
       /\ ~Contains(mapped_voice, "Multilingual")
    THEN IF detected_lang \in DOMAIN LANGUAGE_VOICE_OVERRIDES
         THEN LANGUAGE_VOICE_OVERRIDES[detected_lang]
         ELSE IF detected_lang # "en" THEN MULTILINGUAL_VOICE ELSE mapped_voice
    ELSE mapped_voice

ResolveVoice(voice, detected_lang) ==
    LET mapped_voice == Get(voice_mapping, voice, voice) IN
    IF StartsWith(mapped_voice, "en-") /\ ~Contains(mapped_voice, "Multilingual")
    THEN IF detected_lang \in DOMAIN LANGUAGE_VOICE_OVERRIDES
         THEN LANGUAGE_VOICE_OVERRIDES[detected_lang]
         ELSE IF detected_lang # "en" THEN MULTILINGUAL_VOICE ELSE mapped_voice
    ELSE mapped_voice

----------------------------------------------------------------------------
(* speed_to_rate *)

MinSpeed == 0
MaxSpeed == 200

DigitChar(d) == <<"0", "1", "2", "3", "4", "5", "6", "7", "8", "9">>[d + 1]

RECURSIVE Digits(_)
Digits(n) == IF n < 10 THEN <<DigitChar(n)>>
             ELSE Digits(n \div 10) \o <<DigitChar(n % 10)>>

\* f"{x:+.0f}%" for an integral x
FormatSigned(x) == IF x >= 0 THEN <<"+">> \o Digits(x) \o <<"%">>
                   ELSE <<"-">> \o Digits(0 - x) \o <<"%">>

ValueError == [ok |-> FALSE, rate |-> <<>>]

\* variant: the format "{:.0f}%" without the sign flag
speed_to_rate_unsigned(speed) ==
    IF speed < MinSpeed \/ speed > MaxSpeed THEN ValueError
    ELSE LET percentage_change == speed - 100
         IN  [ok |-> TRUE,
              rate |-> IF percentage_change >= 0
                       THEN Digits(percentage_change) \o <<"%">>
                       ELSE FormatSigned(percentage_change)]

speed_to_rate(speed) ==
    IF speed < MinSpeed \/ speed > MaxSpeed THEN ValueError
    ELSE LET percentage_change == speed - 100
         IN  [ok |-> TRUE, rate |-> FormatSigned(percentage_change)]

\* _generate_audio: try speed_to_rate(speed) except Exception: "+0%"
NeutralRate == <<"+", "0", "%">>
RateOrDefault(speed) ==
    LET r == speed_to_rate(speed) IN IF r.ok THEN r.rate ELSE NeutralRate

----------------------------------------------------------------------------
(* Requests accepted by the handlers of server.py *)

\* read from the environment at start-up (os.getenv over config.DEFAULT_CONFIGS);
\* the values here are one configuration
DEFAULT_VOICE == AvaNeural
DEFAULT_RESPONSE_FORMAT == "mp3"
DEFAULT_SPEED == 100

\* a key the JSON body does not have
AbsentVoice == <<"<absent>">>
AbsentFormat == "<absent>"
AbsentSpeed == [kind |-> "absent", val |-> 0]

Formats == {"mp3", "aac", "wav", "opus", "flac", "ogg"}
ReqVoices == {<<"alloy">>, MULTILINGUAL_VOICE}
ReqSpeeds == {[kind |-> "num", val |-> 120], [kind |-> "num", val |-> 250],
              [kind |-> "junk", val |-> 0]}
DetectOutcomes == {"en", "ru", LangDetectException}

\* data.get(key, default)
DataGet(value, absent, default) == IF value = absent THEN default ELSE value

\* float(x): a number converts, anything else raises ValueError
FloatOk(x) == x.kind = "num"
Float(x) == x.val
FloatValueError == <<"could not convert string to float">>

----------------------------------------------------------------------------
(* Temporary files *)

FreeNames(d) == {f \in Names : d[f] = NoFile}

\* tempfile.NamedTemporaryFile(delete=False, ...) opens a name no existing file has
\* (O_EXCL). Names are interchangeable, so the least free one stands for any of them.
\* variant: one fixed file name shared by every invocation
NewNameFixed(d) == {1}

NewName(d) == {f \in FreeNames(d) : \A g \in FreeNames(d) : f <= g}

CreateFile(d, f, r, suffix) ==
    [d EXCEPT ![f] = [owner |-> r, suffix |-> suffix, content |-> "empty"]]

\* the file's bytes are (re)written by its owner
WriteFile(d, f, content) == [d EXCEPT ![f].content = content]

\* variant: the unlink is forgotten
UnlinkNothing(d, p) == d

\* Path(p).unlink(missing_ok=True)
Unlink(d, p) == IF p \in Names /\ d[p] # NoFile THEN [d EXCEPT ![p] = NoFile] ELSE d

OwnedFiles(r) == {f \in Names : disk[f].owner = r}

----------------------------------------------------------------------------
(* _generate_audio: the encoder's command line *)

CodecTable == ("aac" :> "aac") @@ ("mp3" :> "libmp3lame") @@ ("wav" :> "pcm_s16le") @@
              ("opus" :> "libopus") @@ ("flac" :> "flac")
ContainerTable == ("aac" :> "mp4") @@ ("mp3" :> "mp3") @@ ("wav" :> "wav") @@
                  ("opus" :> "ogg") @@ ("flac" :> "flac")

\* the arguments between the input path and "-y <output path>"
FfmpegArgs(response_format) ==
    <<"-c:a", Get(CodecTable, response_format, "aac")>>
    \o (IF response_format # "wav" THEN <<"-b:a", "192k">> ELSE <<>>)
    \o <<"-f", Get(ContainerTable, response_format, response_format)>>

NoCommand == [input |-> NoPath, args |-> <<>>, output |-> NoPath]

\* the encoder's error stream, and the failure _generate_audio raises from it
Stderr == "<ffmpeg stderr>"
\* variant: the short message whatever the flag
FfmpegErrorMessageTerse(detailed) ==
    <<"FFmpeg error during audio conversion:", "<CalledProcessError>">>

FfmpegErrorMessage(detailed) ==
    IF detailed
    THEN <<"FFmpeg error during audio conversion. Command:", "<cmd>", "Stderr:", Stderr>>
    ELSE <<"FFmpeg error during audio conversion:", "<CalledProcessError>">>

SynthesisError == <<"<edge_tts error>">>

\* variant: the early return is missing
IsNativeNever(response_format) == FALSE

\* response_format == "mp3" returns the native file at once
IsNative(response_format) == response_format = "mp3"

----------------------------------------------------------------------------
(* State *)

NoCommunicate == [voice |-> <<>>, rate |-> <<>>]

\* speed and communicator are kept while the synthesis call is pending and dropped
\* after it: nothing reads them again
NoLocals == [endpoint |-> "", response_format |-> "", speed |-> 0,
             communicator |-> NoCommunicate, temp_mp3_path |-> NoPath,
             converted_path |-> NoPath, probed |-> FALSE,
             ffmpeg_command |-> NoCommand, ret |-> NoPath, exc |-> <<>>]

NoResponse == [status |-> 0, error |-> "", details |-> <<>>, file |-> NoPath,
               download_name |-> ""]

ErrorResponse(status, error, details) ==
    [status |-> status, error |-> error, details |-> details, file |-> NoPath,
     download_name |-> ""]

FileResponse(path, download_name) ==
    [status |-> 200, error |-> "", details |-> <<>>, file |-> path,
     download_name |-> download_name]

NoCall == [fn |-> "", voice |-> <<>>, detect |-> "", speed |-> 0]
NoResult == [done |-> FALSE, voice |-> <<>>, ok |-> FALSE, rate |-> <<>>]

PipelineInit ==
    /\ EXPAND_API \in BOOLEAN
    /\ DETAILED_ERROR_LOGGING \in BOOLEAN
    /\ ffmpeg_installed \in BOOLEAN
    /\ disk = [f \in Names |-> NoFile]
    /\ pc = [r \in Reqs |-> "idle"]
    /\ loc = [r \in Reqs |-> NoLocals]
    /\ response = [r \in Reqs |-> NoResponse]

Init ==
    /\ PipelineInit
    /\ fn_in = NoCall
    /\ fn_out = NoResult

----------------------------------------------------------------------------
(* Handlers *)

\* the handler answers without calling generate_speech
Reject(r, status, error, details) ==
    /\ response' = [response EXCEPT ![r] = ErrorResponse(status, error, details)]
    /\ pc' = [pc EXCEPT ![r] = "done"]
    /\ UNCHANGED <<disk, loc>>

\* generate_speech(text, voice, response_format, speed) up to the await of
\* communicator.save: detect, resolve the voice, create the native temp file,
\* convert the speed
CallGenerateSpeech(r, endpoint, voice, response_format, speed, detect) ==
    \E f \in NewName(disk) :
        /\ disk' = CreateFile(disk, f, r, "mp3")
        /\ loc' = [loc EXCEPT ![r] =
                [NoLocals EXCEPT
                    !.endpoint = endpoint,
                    !.response_format = response_format,
                    !.speed = speed,
                    !.communicator =
                        [voice |-> ResolveVoice(voice, DetectedLang(detect)),
                         rate |-> RateOrDefault(speed)],
                    !.temp_mp3_path = f]]
        /\ pc' = [pc EXCEPT ![r] = "save"]
        /\ UNCHANGED response

text_to_speech(r) ==
    /\ pc[r] = "idle"
    /\ \/ Reject(r, 400, "Missing 'input' in request body", <<>>)
       \/ \E s \in ReqSpeeds :
            /\ ~FloatOk(s)
            /\ Reject(r, 500, "An internal server error occurred", FloatValueError)
       \/ \E v \in ReqVoices \cup {AbsentVoice},
             fmt \in Formats \cup {AbsentFormat},
             s \in ReqSpeeds \cup {AbsentSpeed},
             d \in DetectOutcomes :
            LET speed_in == DataGet(s, AbsentSpeed, [kind |-> "num", val |-> DEFAULT_SPEED])
            IN  /\ FloatOk(speed_in)
                /\ CallGenerateSpeech(r, "speech",
                                      DataGet(v, AbsentVoice, DEFAULT_VOICE),
                                      DataGet(fmt, AbsentFormat, DEFAULT_RESPONSE_FORMAT),
                                      Float(speed_in), d)
    /\ UNCHANGED <<EXPAND_API, DETAILED_ERROR_LOGGING, ffmpeg_installed, fn_in, fn_out>>

elevenlabs_tts(r) ==
    /\ pc[r] = "idle"
    /\ \/ /\ ~EXPAND_API
          /\ Reject(r, 500, "Endpoint not allowed", <<>>)
       \/ /\ EXPAND_API
          /\ Reject(r, 400, "Missing 'text' in request body", <<>>)
       \/ /\ EXPAND_API
          /\ Reject(r, 400, "Invalid JSON payload", <<>>)
       \/ /\ EXPAND_API
          /\ \E voice_id \in ReqVoices, d \in DetectOutcomes :
                CallGenerateSpeech(r, "elevenlabs", voice_id, "mp3", DEFAULT_SPEED, d)
    /\ UNCHANGED <<EXPAND_API, DETAILED_ERROR_LOGGING, ffmpeg_installed, fn_in, fn_out>>

azure_tts(r) ==
    /\ pc[r] = "idle"
    /\ \/ /\ ~EXPAND_API
          /\ Reject(r, 500, "Endpoint not allowed", <<>>)
       \/ /\ EXPAND_API
          /\ Reject(r, 400, "Missing SSML payload", <<>>)
       \/ /\ EXPAND_API
          /\ Reject(r, 400, "Invalid SSML payload", <<>>)
       \/ /\ EXPAND_API
          /\ \E voice \in ReqVoices, d \in DetectOutcomes :
                CallGenerateSpeech(r, "azure", voice, "mp3", DEFAULT_SPEED, d)
    /\ UNCHANGED <<EXPAND_API, DETAILED_ERROR_LOGGING, ffmpeg_installed, fn_in, fn_out>>

----------------------------------------------------------------------------
(* _generate_audio after the await *)

\* communicator.save raises: the exception leaves _generate_audio and generate_speech
SaveFails(r) ==
    /\ pc[r] = "save"
    /\ loc' = [loc EXCEPT ![r].exc = SynthesisError,
                          ![r].speed = 0,
                          ![r].communicator = NoCommunicate]
    /\ pc' = [pc EXCEPT ![r] = "raised"]
    /\ UNCHANGED <<EXPAND_API, DETAILED_ERROR_LOGGING, ffmpeg_installed, disk, response,
                   fn_in, fn_out>>

\* communicator.save returns: return the native file, or start the encoder
SaveSucceeds(r) ==
    /\ pc[r] = "save"
    /\ LET written == WriteFile(disk, loc[r].temp_mp3_path, "native")
           fmt == loc[r].response_format
           after == [loc EXCEPT ![r].speed = 0, ![r].communicator = NoCommunicate]
       IN  \/ /\ IsNative(fmt)
              /\ disk' = written
              /\ loc' = [after EXCEPT ![r].ret = loc[r].temp_mp3_path]
              /\ pc' = [pc EXCEPT ![r] = "returned"]
           \/ /\ ~IsNative(fmt)
              /\ ~ffmpeg_installed
              /\ disk' = written
              /\ loc' = [after EXCEPT ![r].probed = TRUE,
                                      ![r].ret = loc[r].temp_mp3_path]
              /\ pc' = [pc EXCEPT ![r] = "returned"]
           \/ /\ ~IsNative(fmt)
              /\ ffmpeg_installed
              /\ \E f \in NewName(written) :
                    /\ disk' = CreateFile(written, f, r, fmt)
                    /\ loc' = [after EXCEPT
                            ![r].probed = TRUE,
                            ![r].converted_path = f,
                            ![r].ffmpeg_command =
                                [input |-> loc[r].temp_mp3_path,
                                 args |-> FfmpegArgs(fmt),
                                 output |-> f]]
              /\ pc' = [pc EXCEPT ![r] = "ffmpeg"]
    /\ UNCHANGED <<EXPAND_API, DETAILED_ERROR_LOGGING, ffmpeg_installed, response,
                   fn_in, fn_out>>

\* subprocess.run(ffmpeg_command, check=True) returns
FfmpegSucceeds(r) ==
    /\ pc[r] = "ffmpeg"
    /\ disk' = Unlink(WriteFile(disk, loc[r].converted_path, "converted"),
                      loc[r].temp_mp3_path)
    /\ loc' = [loc EXCEPT ![r].ret = loc[r].converted_path]
    /\ pc' = [pc EXCEPT ![r] = "returned"]
    /\ UNCHANGED <<EXPAND_API, DETAILED_ERROR_LOGGING, ffmpeg_installed, response,
                   fn_in, fn_out>>

\* subprocess.run raises CalledProcessError
FfmpegFails(r) ==
    /\ pc[r] = "ffmpeg"
    /\ disk' = Unlink(Unlink(WriteFile(disk, loc[r].converted_path, "partial"),
                             loc[r].converted_path),
                      loc[r].temp_mp3_path)
    /\ loc' = [loc EXCEPT ![r].exc = FfmpegErrorMessage(DETAILED_ERROR_LOGGING)]
    /\ pc' = [pc EXCEPT ![r] = "raised"]
    /\ UNCHANGED <<EXPAND_API, DETAILED_ERROR_LOGGING, ffmpeg_installed, response,
                   fn_in, fn_out>>

----------------------------------------------------------------------------
(* Back in the handler *)

\* send_file(output_file_path, ..., download_name=f"speech.{response_format}")
SendFile(r) ==
    /\ pc[r] = "returned"
    /\ response' = [response EXCEPT ![r] =
            FileResponse(loc[r].ret, loc[r].response_format)]
    /\ loc' = [loc EXCEPT ![r] = NoLocals]
    /\ pc' = [pc EXCEPT ![r] = "done"]
    /\ UNCHANGED <<EXPAND_API, DETAILED_ERROR_LOGGING, ffmpeg_installed, disk,
                   fn_in, fn_out>>

\* except Exception as e: the 500 response with str(e)
HandleException(r) ==
    /\ pc[r] = "raised"
    /\ response' = [response EXCEPT ![r] =
            ErrorResponse(500,
                          IF loc[r].endpoint = "speech"
                          THEN "An internal server error occurred"
                          ELSE "TTS generation failed",
                          loc[r].exc)]
    /\ loc' = [loc EXCEPT ![r] = NoLocals]
    /\ pc' = [pc EXCEPT ![r] = "done"]
    /\ UNCHANGED <<EXPAND_API, DETAILED_ERROR_LOGGING, ffmpeg_installed, disk,
                   fn_in, fn_out>>

Next ==
    \E r \in Reqs :
        \/ text_to_speech(r)
        \/ elevenlabs_tts(r)
        \/ azure_tts(r)
        \/ SaveFails(r)
        \/ SaveSucceeds(r)
        \/ FfmpegSucceeds(r)
        \/ FfmpegFails(r)
        \/ SendFile(r)
        \/ HandleException(r)

Spec == Init /\ [][Next]_vars

----------------------------------------------------------------------------
(* Direct calls of the pure parts: voice resolution of generate_speech and   *)
(* speed_to_rate, over wider input sets than the requests above carry.       *)

AvaMultilingualNeural == <<"en-", "US-", "Ava", "Multilingual", "Neural">>
DeniseNeural == <<"fr-", "FR-", "Denise", "Neural">>
SeraphinaMultilingualNeural == <<"de-", "DE-", "Seraphina", "Multilingual", "Neural">>

FnVoices == DOMAIN voice_mapping
            \cup {AvaNeural, SoniaNeural, MULTILINGUAL_VOICE, AvaMultilingualNeural,
                  DeniseNeural, DmitryNeural, SeraphinaMultilingualNeural, <<"robot">>}
FnDetectOutcomes == {"en", "ru", "fr", "de", LangDetectException}
FnSpeeds == (MinSpeed - SpeedMargin)..(MaxSpeed + SpeedMargin)

FnInit ==
    /\ EXPAND_API = FALSE
    /\ DETAILED_ERROR_LOGGING = FALSE
    /\ ffmpeg_installed = FALSE
    /\ disk = [f \in Names |-> NoFile]
    /\ pc = [r \in Reqs |-> "idle"]
    /\ loc = [r \in Reqs |-> NoLocals]
    /\ response = [r \in Reqs |-> NoResponse]
    /\ fn_out = NoResult
    /\ \/ \E v \in FnVoices, d \in FnDetectOutcomes :
            fn_in = [fn |-> "generate_speech", voice |-> v, detect |-> d, speed |-> 0]
       \/ \E s \in FnSpeeds :
            fn_in = [fn |-> "speed_to_rate", voice |-> <<>>, detect |-> "", speed |-> s]

\* generate_speech lines 109-122: the voice handed to _generate_audio
CallResolveVoice ==
    /\ fn_in.fn = "generate_speech"
    /\ ~fn_out.done
    /\ fn_out' = [NoResult EXCEPT
                    !.done = TRUE,
                    !.voice = ResolveVoice(fn_in.voice, DetectedLang(fn_in.detect))]
    /\ UNCHANGED <<pipeline_vars, fn_in>>

CallSpeedToRate ==
    /\ fn_in.fn = "speed_to_rate"
    /\ ~fn_out.done
    /\ fn_out' = [NoResult EXCEPT
                    !.done = TRUE,
                    !.ok = speed_to_rate(fn_in.speed).ok,
                    !.rate = speed_to_rate(fn_in.speed).rate]
    /\ UNCHANGED <<pipeline_vars, fn_in>>

FnNext == CallResolveVoice \/ CallSpeedToRate

SpecFn == FnInit /\ [][FnNext]_vars

----------------------------------------------------------------------------
(* Properties *)

Active(r) == pc[r] \in {"save", "ffmpeg", "returned", "raised"}
EncoderRan(r) == loc[r].ffmpeg_command # NoCommand
EncoderFailed(r) == pc[r] = "raised" /\ EncoderRan(r)
SupportedFormats == {"mp3", "aac", "wav", "opus", "flac"}

\* C1: once generate_speech has returned, the temporary files of the invocation
\* still on disk are exactly the returned one; once it has raised, there are none
\* (in particular after a failed synthesis call).
C1_OnlyReturnedFileRemains ==
    \A r \in Reqs :
        /\ pc[r] = "returned" => OwnedFiles(r) = {loc[r].ret}
        /\ pc[r] = "raised" => OwnedFiles(r) = {}

\* C2 as stated: when the encoder exits non-zero, the native and the converted
\* file are both gone when the failure is raised, and the failure carries the
\* encoder's error stream.
C2_FailureCarriesStderr ==
    \A r \in Reqs :
        EncoderFailed(r) =>
            /\ OwnedFiles(r) = {}
            /\ Contains(loc[r].exc, Stderr)

\* C2 amended: when the encoder exits non-zero, the native and the converted file
\* are both gone when the failure is raised; the failure carries the encoder's
\* error stream when DETAILED_ERROR_LOGGING is set, and otherwise only the text
\* of the CalledProcessError (command and exit status).
C2_FailureCarriesStderrIfDetailed ==
    \A r \in Reqs :
        EncoderFailed(r) =>
            /\ OwnedFiles(r) = {}
            /\ loc[r].temp_mp3_path \notin OwnedFiles(r)
            /\ loc[r].converted_path \notin OwnedFiles(r)
            /\ DETAILED_ERROR_LOGGING => Contains(loc[r].exc, Stderr)
            /\ ~DETAILED_ERROR_LOGGING =>
                    /\ ~Contains(loc[r].exc, Stderr)
                    /\ Contains(loc[r].exc, "<CalledProcessError>")

C2_Witness ==
    \E r \in Reqs :
        /\ EncoderFailed(r)
        /\ DETAILED_ERROR_LOGGING
        /\ loc[r].temp_mp3_path # NoPath
        /\ loc[r].converted_path # NoPath

\* C3: for a supported format other than mp3, after a successful synthesis: with
\* the encoder available, the file returned is a new file of the invocation with
\* the target suffix and the native file is gone (it is gone as well when the
\* encoder fails); with the encoder unavailable, the native path is returned, no
\* file is created, none deleted, and the step never fails.
C3_Transcode ==
    \A r \in Reqs :
        LET l == loc[r] IN
        (Active(r) /\ l.response_format \in SupportedFormats \ {"mp3"}) =>
            /\ (ffmpeg_installed /\ pc[r] = "returned") =>
                    /\ l.ret = l.converted_path
                    /\ l.ret # l.temp_mp3_path
                    /\ disk[l.ret] = [owner |-> r, suffix |-> l.response_format,
                                      content |-> "converted"]
                    /\ l.temp_mp3_path \notin OwnedFiles(r)
            /\ (ffmpeg_installed /\ EncoderFailed(r)) =>
                    l.temp_mp3_path \notin OwnedFiles(r)
            /\ (~ffmpeg_installed /\ pc[r] = "returned") =>
                    /\ l.ret = l.temp_mp3_path
                    /\ l.converted_path = NoPath
                    /\ ~EncoderRan(r)
                    /\ OwnedFiles(r) = {l.temp_mp3_path}
                    /\ disk[l.ret] = [owner |-> r, suffix |-> "mp3", content |-> "native"]
            /\ ~ffmpeg_installed => pc[r] # "ffmpeg"
            /\ (~ffmpeg_installed /\ pc[r] = "raised") => l.exc = SynthesisError

C3_Witness ==
    \E r \in Reqs :
        /\ pc[r] = "returned"
        /\ loc[r].response_format = "wav"
        /\ ffmpeg_installed
        /\ loc[r].ret = loc[r].converted_path

\* the voice C4 describes: the alias-mapped voice, replaced when it is subject to
\* override (exempt tells which English-prefixed voices are not)
C4_Claimed(voice, outcome, exempt) ==
    LET base == IF voice \in DOMAIN voice_mapping THEN voice_mapping[voice] ELSE voice
        lang == IF outcome = LangDetectException THEN "en" ELSE outcome
        subject == base[1] = "en-" /\ ~exempt
    IN  CASE subject /\ lang = "ru" -> DmitryNeural
          [] subject /\ lang \notin {"ru", "en"} -> MULTILINGUAL_VOICE
          [] OTHER -> base

\* C4 as stated: among English-prefixed voices only the multilingual fallback
\* voice itself is exempt from the language override.
C4_OnlyFallbackVoiceExempt ==
    (fn_in.fn = "generate_speech" /\ fn_out.done) =>
        fn_out.voice =
            C4_Claimed(fn_in.voice, fn_in.detect,
                       Get(voice_mapping, fn_in.voice, fn_in.voice) = MULTILINGUAL_VOICE)

\* C4 amended: the voice passed to synthesis is the alias-mapped voice (or the
\* selector itself), replaced by the override-table voice, or by the multilingual
\* fallback voice when the detected language has no override and is not English,
\* exactly when it begins with "en-" and its identifier does not contain
\* "Multilingual"; every English-prefixed voice whose identifier contains
\* "Multilingual" is exempt, alias or not. A detection failure counts as "en".
C4_MultilingualVoicesExempt ==
    (fn_in.fn = "generate_speech" /\ fn_out.done) =>
        fn_out.voice =
            C4_Claimed(fn_in.voice, fn_in.detect,
                       \E i \in DOMAIN Get(voice_mapping, fn_in.voice, fn_in.voice) :
                            Get(voice_mapping, fn_in.voice, fn_in.voice)[i] = "Multilingual")

C4_Witness ==
    /\ fn_in.fn = "generate_speech"
    /\ fn_out.done
    /\ fn_in.voice = SoniaNeural
    /\ fn_in.detect = "fr"
    /\ fn_out.voice = MULTILINGUAL_VOICE

\* C5: once every request has been answered, no audio file handed to the
\* transport layer is left on disk.
C5_ArtifactsDeleted ==
    (\A r \in Reqs : pc[r] = "done") =>
        \A r \in Reqs : response[r].status = 200 => disk[response[r].file] = NoFile

\* C6: a malformed or out-of-range speed never fails the request: synthesis is
\* invoked with "+0%" for it and no error response is due to the speed value.
C6_SpeedNeverFailsRequest ==
    \A r \in Reqs :
        /\ (pc[r] = "save" /\ (loc[r].speed < 0 \/ loc[r].speed > 200)) =>
                loc[r].communicator.rate = <<"+", "0", "%">>
        /\ response[r].status >= 400 => response[r].details # FloatValueError

\* the arguments C7's table gives for a format
C7_TableArgs(fmt) ==
    CASE fmt = "aac" -> <<"-c:a", "aac", "-b:a", "192k", "-f", "mp4">>
      [] fmt = "wav" -> <<"-c:a", "pcm_s16le", "-f", "wav">>
      [] fmt = "opus" -> <<"-c:a", "libopus", "-b:a", "192k", "-f", "ogg">>
      [] fmt = "flac" -> <<"-c:a", "flac", "-f", "flac">>
      [] OTHER -> <<"-c:a", "aac", "-b:a", "192k", "-f", fmt>>

\* C7: whenever the encoder is invoked, its codec, bitrate and container
\* arguments are those of the codec selection table (no bitrate for wav and flac).
C7_ArgsFollowTable ==
    \A r \in Reqs :
        EncoderRan(r) => loc[r].ffmpeg_command.args = C7_TableArgs(loc[r].response_format)

\* what an invocation (running alone) leaves on disk, from its own locals
C8_FilesAlone(r) ==
    CASE pc[r] = "save" -> {loc[r].temp_mp3_path}
      [] pc[r] = "ffmpeg" -> {loc[r].temp_mp3_path, loc[r].converted_path}
      [] pc[r] = "returned" -> {loc[r].ret}
      [] pc[r] = "raised" /\ EncoderRan(r) -> {}
      [] pc[r] = "raised" /\ ~EncoderRan(r) -> {loc[r].temp_mp3_path}
      [] OTHER -> OwnedFiles(r)

C8_Isolated ==
    \A r \in Reqs :
        /\ OwnedFiles(r) = C8_FilesAlone(r)
        /\ pc[r] = "ffmpeg" => loc[r].temp_mp3_path # loc[r].converted_path
        /\ pc[r] = "returned" =>
                loc[r].ret = IF IsNative(loc[r].response_format) \/ ~ffmpeg_installed
                             THEN loc[r].temp_mp3_path ELSE loc[r].converted_path

C8_OwnFilesOnly ==
    \A f \in Names :
        disk'[f] # disk[f] =>
            \E r \in Reqs :
                /\ pc'[r] # pc[r]
                /\ disk[f].owner \in {0, r}
                /\ disk'[f].owner \in {0, r}

C9_Mp3IsReturnedAsIs ==
    \A r \in Reqs :
        /\ (Active(r) /\ loc[r].endpoint \in {"elevenlabs", "azure"}) =>
                loc[r].response_format = "mp3"
        /\ (Active(r) /\ loc[r].response_format = "mp3") =>
                /\ ~loc[r].probed
                /\ ~EncoderRan(r)
                /\ loc[r].converted_path = NoPath
                /\ OwnedFiles(r) = {loc[r].temp_mp3_path}
                /\ pc[r] # "ffmpeg"
                /\ pc[r] = "returned" =>
                        /\ loc[r].ret = loc[r].temp_mp3_path
                        /\ disk[loc[r].ret] =
                                [owner |-> r, suffix |-> "mp3", content |-> "native"]

C9_Witness ==
    \E r \in Reqs :
        /\ pc[r] = "returned"
        /\ loc[r].endpoint = "elevenlabs"
        /\ loc[r].ret = loc[r].temp_mp3_path

\* reading a rate string back
C10_CharDigit == ("0" :> 0) @@ ("1" :> 1) @@ ("2" :> 2) @@ ("3" :> 3) @@ ("4" :> 4) @@
                 ("5" :> 5) @@ ("6" :> 6) @@ ("7" :> 7) @@ ("8" :> 8) @@ ("9" :> 9)

RECURSIVE C10_Value(_)
C10_Value(ds) ==
    IF ds = <<>> THEN 0
    ELSE 10 * C10_Value(SubSeq(ds, 1, Len(ds) - 1)) + C10_CharDigit[ds[Len(ds)]]

C10_WellFormed(rate) ==
    /\ Len(rate) >= 3
    /\ rate[1] \in {"+", "-"}
    /\ rate[Len(rate)] = "%"
    /\ \A i \in 2..(Len(rate) - 1) : rate[i] \in DOMAIN C10_CharDigit
    /\ Len(rate) > 3 => rate[2] # "0"

C10_Signed(rate) ==
    LET n == C10_Value(SubSeq(rate, 2, Len(rate) - 1))
    IN  IF rate[1] = "-" THEN 0 - n ELSE n

\* C10: speed_to_rate fails below 0 and above 2; for a speed in [0,2] that is a
\* whole number of hundredths it returns an explicit sign, the integer
\* (speed - 1) * 100 and "%": 1.0 "+0%", 1.2 "+20%", 0.5 "-50%", 0 "-100%",
\* 2 "+100%".
C10_SpeedToRate ==
    (fn_in.fn = "speed_to_rate" /\ fn_out.done) =>
        LET speed == fn_in.speed IN
        /\ (speed < 0 \/ speed > 200) => ~fn_out.ok
        /\ (0 <= speed /\ speed <= 200) =>
                /\ fn_out.ok
                /\ C10_WellFormed(fn_out.rate)
                /\ C10_Signed(fn_out.rate) = speed - 100
                /\ fn_out.rate[1] = "+" <=> speed >= 100
        /\ speed = 100 => fn_out.rate = <<"+", "0", "%">>
        /\ speed = 120 => fn_out.rate = <<"+", "2", "0", "%">>
        /\ speed = 50 => fn_out.rate = <<"-", "5", "0", "%">>
        /\ speed = 0 => fn_out.rate = <<"-", "1", "0", "0", "%">>
        /\ speed = 200 => fn_out.rate = <<"+", "1", "0", "0", "%">>

C10_Witness ==
    /\ fn_in.fn = "speed_to_rate"
    /\ fn_out.done
    /\ fn_in.speed = 120
    /\ fn_out.ok
    /\ fn_out.rate = <<"+", "2", "0", "%">>

====
